---- MODULE Spec2Model ----
(***************************************************************************)
(* Update detection, approval and acquisition of the tax reference data:   *)
(* SmartUpdateSystem (smart_update_system.py) over the update_history      *)
(* table, calling the download pipeline of TaxDataAutoUpdater              *)
(* (tax_data_auto_updater.py) and the import of TaxDataManager             *)
(* (tax_data_manager.py).                                                  *)
(***************************************************************************)
EXTENDS Integers, Sequences, FiniteSets, TLC

VARIABLES
    config,          \* self.config: the dict the component was constructed with
    sqlUpdateLimit,  \* whether the SQLite build accepts UPDATE ... ORDER BY ... LIMIT
    now,             \* wall clock, in seconds
    ticks,           \* number of clock advances made so far
    calls,           \* number of smart_check / approve_update calls started so far
    ledger,          \* rows of update_history, in id order (row i has id i)
    lastProbe,       \* per data type, the response of the latest HEAD probe
    store,           \* rows of the three dataset tables
    backups,         \* number of backup snapshots written
    notified,        \* data types an 'update available' notification was sent for
    pc,              \* position of each caller
    loc,             \* locals of the call each caller is in (or has last finished)
    scheduler,       \* TaxDataAutoUpdater.start_scheduler: its position and locals
    text,            \* the text of a document, as handed to _parse_*_data
    df,              \* what _convert_pdf_to_csv got from the parser
    imports,         \* the import_* calls made on TaxDataManager run on its own
    configArg,       \* the component being constructed and its config argument
    company,         \* the arguments of a judge_company_size call
    size,            \* what judge_company_size returned
    anchors,         \* the anchors of a publisher page, in document order
    acquisition      \* the locals of a _download_and_process_* call run on its own

\* the state of the components when they are run on their own
\* the arguments and results of the functions that are applied on their own
functionVars == <<company, size, anchors, acquisition>>

componentVars == <<scheduler, text, df, imports, configArg, functionVars>>

vars == <<config, sqlUpdateLimit, now, ticks, calls, ledger, lastProbe, store,
          backups, notified, pc, loc, componentVars>>

----------------------------------------------------------------------------
(* Bounds of the model *)

NumProcs == 2
MaxCalls == 3
MaxTicks == 1
MaxLedger == 6
MaxConcurrentChecks == 1

Procs == 1..NumProcs

----------------------------------------------------------------------------
(* Constants of the program *)

DataTypes == <<"comparable", "dividend", "company_size">>

DataTypeSet == {DataTypes[i] : i \in 1..Len(DataTypes)}

ForcedRecheckDays == 30

\* timedelta(days=30), in seconds
ForcedRecheckSeconds == ForcedRecheckDays * 86400

Null == "NULL"

NullTime == -1

SmartDefaultKeys ==
    {"base_url", "check_interval_hours", "lightweight_check", "notification_enabled",
     "auto_update", "max_retries", "timeout", "notification_email",
     "notification_slack_webhook"}

UpdaterDefaultKeys ==
    {"base_url", "comparable_data_url", "dividend_data_url", "company_size_data_url",
     "check_interval_hours", "download_dir", "backup_dir", "max_retries", "timeout"}

RunnerKeys == {"check_interval_hours", "notification_enabled", "auto_update"}

DefaultMaxRetries == 3

\* config = None: SmartUpdateSystem._get_default_config()
SmartDefaultConfig ==
    [keys |-> SmartDefaultKeys, notification_enabled |-> TRUE,
     max_retries |-> DefaultMaxRetries]

\* the dict smart_updater_runner.main passes: it replaces the defaults
RunnerConfig ==
    [keys |-> RunnerKeys, notification_enabled |-> TRUE,
     max_retries |-> DefaultMaxRetries]

\* a caller's dict holding every key either component reads
FullConfig ==
    [keys |-> SmartDefaultKeys \cup UpdaterDefaultKeys, notification_enabled |-> TRUE,
     max_retries |-> DefaultMaxRetries]

Configs == {SmartDefaultConfig, RunnerConfig, FullConfig}

HasKeys(ks) == ks \subseteq config.keys

UrlKey(dt) ==
    CASE dt = "comparable" -> "comparable_data_url"
      [] dt = "dividend" -> "dividend_data_url"
      [] dt = "company_size" -> "company_size_data_url"

----------------------------------------------------------------------------
(* The update_history table *)

\* a row as _record_update_history inserts it: only data_type, update_available
\* and update_status are given, every other column takes its default
NewRow(id, dt, ua) ==
    [id |-> id, data_type |-> dt, check_date |-> now,
     last_modified |-> Null, etag |-> Null, content_hash |-> Null,
     update_available |-> ua, update_status |-> "pending",
     admin_approved |-> FALSE, update_executed_at |-> NullTime, notes |-> Null]

Ids == 1..Len(ledger)

\* WHERE data_type = ? [AND cond] ORDER BY check_date DESC LIMIT 1: the ids the
\* statement may select; SQLite does not define the order of rows that tie
LatestUpdateAvailable(dt) ==
    {i \in Ids : /\ ledger[i].data_type = dt
                 /\ ledger[i].update_available
                 /\ \A j \in Ids : (ledger[j].data_type = dt /\ ledger[j].update_available)
                                      => ledger[j].check_date <= ledger[i].check_date}

LatestApproved(dt) ==
    {i \in Ids : /\ ledger[i].data_type = dt
                 /\ ledger[i].admin_approved
                 /\ \A j \in Ids : (ledger[j].data_type = dt /\ ledger[j].admin_approved)
                                      => ledger[j].check_date <= ledger[i].check_date}

\* _get_last_check_info: the ids the SELECT may return, {} when there is no row
LastCheckInfo(dt) ==
    {i \in Ids : /\ ledger[i].data_type = dt
                 /\ \A j \in Ids : ledger[j].data_type = dt
                                      => ledger[j].check_date <= ledger[i].check_date}

\* the selections, 0 standing for 'no row'
OrNone(S) == IF S = {} THEN {0} ELSE S

----------------------------------------------------------------------------
(* The HEAD probe *)

LastModifiedValues == {Null, "Mon, 01 Jan 2023", "Mon, 01 Jan 2024"}

ETagValues == {Null, "etag-1"}

ProbeFailure == [ok |-> FALSE, last_modified |-> Null, etag |-> Null]

Responses ==
    {ProbeFailure} \cup
    {r \in [ok : {TRUE}, last_modified : LastModifiedValues, etag : ETagValues] :
        r.etag = Null \/ r.last_modified # "Mon, 01 Jan 2024"}

\* the responses the callers of the concurrent specification see: a failure, a
\* response without validators and one with a Last-Modified header
SomeResponses ==
    {ProbeFailure,
     [ok |-> TRUE, last_modified |-> Null, etag |-> Null],
     [ok |-> TRUE, last_modified |-> "Mon, 01 Jan 2023", etag |-> Null]}

\* a check that does not compare the validators
IgnoreValidators(dt, resp, last) ==
    IF ~HasKeys({"base_url", "timeout"}) THEN FALSE
    ELSE IF ~resp.ok THEN FALSE
    ELSE IF last = 0 THEN TRUE
    ELSE now - ledger[last].check_date > ForcedRecheckSeconds

\* _lightweight_check, given the response of session.head and the row
\* _get_last_check_info returned (last = 0: none); the clock of the process and
\* CURRENT_TIMESTAMP of SQLite are taken to agree (a host on UTC)
LightweightCheck(dt, resp, last) ==
    IF ~HasKeys({"base_url", "timeout"}) THEN FALSE      \* KeyError, caught
    ELSE IF ~resp.ok THEN FALSE                           \* request error, caught
    ELSE IF last = 0 THEN TRUE
    ELSE IF resp.last_modified # Null
            /\ resp.last_modified # ledger[last].last_modified THEN TRUE
    ELSE IF resp.etag # Null /\ resp.etag # ledger[last].etag THEN TRUE
    ELSE IF now - ledger[last].check_date > ForcedRecheckSeconds THEN TRUE
    ELSE FALSE

\* whether the probe of _lightweight_check got a response at all
ProbeCompleted(resp) == HasKeys({"base_url", "timeout"}) /\ resp.ok

----------------------------------------------------------------------------
(* Callers *)

\* the locals of a call; ledger0, backups0, marked, completed, downloaded, imported,
\* wrote, prev and elapsed record what the call saw and did
NoCall ==
    [op |-> "none", dt |-> "none", idx |-> 0, ua |-> FALSE, resp |-> ProbeFailure,
     prev |-> ProbeFailure, last |-> 0, elapsed |-> 0, results |-> {}, ret |-> "none",
     attempt |-> 0, sleeps |-> <<>>, success |-> FALSE,
     ledger0 |-> <<>>, backups0 |-> 0, marked |-> 0,
     downloaded |-> FALSE, imported |-> FALSE, wrote |-> FALSE]

\* a call has returned: of its locals the caller keeps the returned value, and
\* the waits _download_file made when the download did not succeed
Returned(l, ret) ==
    [NoCall EXCEPT !.op = l.op, !.dt = l.dt, !.ret = ret, !.results = l.results,
                   !.sleeps = l.sleeps]

\* start_scheduler has not been called
NoScheduler ==
    [pc |-> "none", idx |-> 0, success |-> FALSE, runs |-> 0, stop |-> "none",
     at |-> "none"]

\* no document has been parsed
NoDf == [data_type |-> "none", state |-> "none", rows |-> <<>>]

\* config = None, the default of the parameter
None == [keys |-> {"None"}, notification_enabled |-> FALSE, max_retries |-> 0]

\* no component is being constructed
NoConstructor == [component |-> "none", config |-> None]

\* the components that are not run on their own stay as constructed
ComponentsIdle ==
    /\ scheduler = NoScheduler
    /\ text = <<>>
    /\ df = NoDf
    /\ imports = <<>>
    /\ configArg = NoConstructor

\* no company is being judged
NoCompany == [employee_count |-> -1, total_assets |-> -1, sales_amount |-> -1]

\* None, as _find_*_pdf_url returns it
NoUrl == [page |-> "none", href |-> "none"]

\* no _download_and_process_* call is made on its own
NoAcquisition ==
    [data_type |-> "none", pc |-> "none", runs |-> 0, received |-> FALSE,
     pdf_url |-> NoUrl, downloaded |-> FALSE, converted |-> FALSE, imported |-> FALSE,
     rest |-> {}, txn |-> {}, before |-> [dt \in DataTypeSet |-> {}]]

\* no function is being applied on its own
FunctionsIdle ==
    /\ company = NoCompany
    /\ size = "none"
    /\ anchors = <<>>
    /\ acquisition = NoAcquisition

\* the clock at its start, an empty database, no caller in a call
Start ==
    /\ now = 0
    /\ ticks = 0
    /\ calls = 0
    /\ ledger = <<>>
    /\ lastProbe = [dt \in DataTypeSet |-> ProbeFailure]
    /\ store = [dt \in DataTypeSet |-> {}]
    /\ backups = 0
    /\ notified = [dt \in DataTypeSet |-> 0]
    /\ pc = [p \in Procs |-> "idle"]
    /\ loc = [p \in Procs |-> NoCall]

Quiet == Start /\ FunctionsIdle

Init ==
    /\ ComponentsIdle
    /\ config \in Configs
    /\ sqlUpdateLimit \in BOOLEAN
    /\ Quiet

\* time passes, by one of the given numbers of seconds
Tick(deltas) ==
    /\ ticks < MaxTicks
    /\ \E d \in deltas : now' = now + d
    /\ ticks' = ticks + 1
    /\ UNCHANGED componentVars
    /\ UNCHANGED <<config, sqlUpdateLimit, calls, ledger, lastProbe, store, backups,
                   notified, pc, loc>>

----------------------------------------------------------------------------
(* smart_check *)

\* a caller that is free takes the next call; callers are interchangeable, so
\* the call goes to the first free one
CanCall(p) ==
    /\ pc[p] = "idle"
    /\ \A q \in Procs : q < p => pc[q] # "idle"
    /\ calls < MaxCalls

InCheck == {p \in Procs : loc[p].op = "check" /\ pc[p] # "idle"}

\* smart_check is entered
SmartCheck(p) ==
    /\ CanCall(p)
    /\ Cardinality(InCheck) < MaxConcurrentChecks
    /\ Len(ledger) + Len(DataTypes) * (Cardinality(InCheck) + 1) <= MaxLedger
    /\ calls' = calls + 1
    /\ pc' = [pc EXCEPT ![p] = "lightweight_check"]
    /\ loc' = [loc EXCEPT ![p] = [NoCall EXCEPT !.op = "check", !.idx = 1,
                                                !.dt = DataTypes[1],
                                                !.backups0 = backups]]
    /\ UNCHANGED componentVars
    /\ UNCHANGED <<config, sqlUpdateLimit, now, ticks, ledger, lastProbe, store,
                   backups, notified>>

\* _notify_update_available raises KeyError when the option is not in the dict
NotifyRaises == ~HasKeys({"notification_enabled"})

\* whether _notify_update_available hands the message to the email channel
NotifySends ==
    /\ HasKeys({"notification_enabled"})
    /\ config.notification_enabled
    /\ "notification_email" \in config.keys

\* the responses session.head can give: none but the failure when the KeyError
\* of a missing option is raised before the request is made
Answers(answers) ==
    IF HasKeys({"base_url", "timeout"}) THEN answers ELSE {ProbeFailure}

\* one turn of the loop of smart_check up to the INSERT: the HEAD probe, the read
\* of the previous row, the decision and, when an update is seen, the notification.
\* The response is kept in lastProbe where the specification observes the remote side
LightweightCheckStep(p, answers, observed) ==
    /\ pc[p] = "lightweight_check"
    /\ \E resp \in Answers(answers), last \in OrNone(LastCheckInfo(loc[p].dt)) :
         LET ua == LightweightCheck(loc[p].dt, resp, last) IN
         /\ lastProbe' = IF observed /\ HasKeys({"base_url", "timeout"})
                         THEN [lastProbe EXCEPT ![loc[p].dt] = resp]
                         ELSE lastProbe
         /\ IF ua /\ NotifyRaises
            THEN \* the exception leaves the loop: smart_check returns {}
                 /\ pc' = [pc EXCEPT ![p] = "idle"]
                 /\ loc' = [loc EXCEPT ![p] = Returned([@ EXCEPT !.results = {}], "empty")]
                 /\ UNCHANGED notified
            ELSE /\ pc' = [pc EXCEPT ![p] = "record_update_history"]
                 /\ loc' = [loc EXCEPT ![p].ua = ua, ![p].resp = resp,
                                       ![p].prev = lastProbe[loc[p].dt],
                                       ![p].last = last,
                                       ![p].elapsed =
                                           IF last = 0 THEN 0
                                           ELSE now - ledger[last].check_date]
                 /\ notified' = IF ua /\ NotifySends
                                THEN [notified EXCEPT ![loc[p].dt] = @ + 1]
                                ELSE notified
    /\ UNCHANGED componentVars
    /\ UNCHANGED <<config, sqlUpdateLimit, now, ticks, calls, ledger, store, backups>>

\* what the turn saw is dropped when the turn ends
EndTurn(l) ==
    [l EXCEPT !.resp = ProbeFailure, !.prev = ProbeFailure, !.last = 0, !.elapsed = 0,
              !.ua = FALSE]

\* _record_update_history, then the next data type or the return of the results
RecordUpdateHistory(p) ==
    /\ pc[p] = "record_update_history"
    /\ ledger' = Append(ledger, NewRow(Len(ledger) + 1, loc[p].dt, loc[p].ua))
    /\ IF loc[p].idx = Len(DataTypes)
       THEN /\ pc' = [pc EXCEPT ![p] = "idle"]
            /\ loc' = [loc EXCEPT ![p] =
                         Returned([@ EXCEPT !.results = @ \cup {<<loc[p].dt, loc[p].ua>>}],
                                  "results")]
       ELSE /\ pc' = [pc EXCEPT ![p] = "lightweight_check"]
            /\ loc' = [loc EXCEPT ![p] =
                         [EndTurn(@) EXCEPT !.results = @ \cup {<<loc[p].dt, loc[p].ua>>},
                                            !.idx = @ + 1,
                                            !.dt = DataTypes[loc[p].idx + 1]]]
    /\ UNCHANGED componentVars
    /\ UNCHANGED <<config, sqlUpdateLimit, now, ticks, calls, lastProbe, store, backups,
                   notified>>

----------------------------------------------------------------------------
(* approve_update *)

\* the documents an acquisition can meet, as the rows parsed from them
Docs == {{[key |-> "01", val |-> 1]}, {[key |-> "02", val |-> 1]}}

\* the document the callers of the concurrent specification meet
SomeDocs == {{[key |-> "01", val |-> 1]}}

\* date.today().year and date.today().month at clock t: years are counted from
\* year 1 at the start of the clock, a month is taken as 30 days
Year(t) == 1 + t \div (12 * 30 * 86400)

Month(t) == 1 + ((t \div (30 * 86400)) % 12)

\* INSERT OR REPLACE of each row under UNIQUE(year, month, key)
ImportRows(table, year, month, rows) ==
    {r \in table : ~(r.year = year /\ r.month = month /\ \E n \in rows : n.key = r.key)}
        \cup {[year |-> year, month |-> month, key |-> n.key, val |-> n.val] : n \in rows}

\* an UPDATE that sets the status and leaves admin_approved as it is
MarkStatusOnly(id) ==
    IF id = 0 THEN ledger
    ELSE [ledger EXCEPT ![id].update_status = "approved"]

\* the first UPDATE of approve_update applied to row id (0: no row matched)
MarkApproved(id) ==
    IF id = 0 THEN ledger
    ELSE [ledger EXCEPT ![id].admin_approved = TRUE, ![id].update_status = "approved"]

\* the UPDATE of _record_update_execution applied to row id (0: no row matched)
MarkCompleted(id) ==
    IF id = 0 THEN ledger
    ELSE [ledger EXCEPT ![id].update_status = "completed",
                        ![id].update_executed_at = now]

\* approve_update returns False: nothing more is written
ApproveFails(p, l) ==
    /\ pc' = [pc EXCEPT ![p] = "idle"]
    /\ loc' = [loc EXCEPT ![p] = Returned(l, "false")]

\* approve_update is entered and runs its first UPDATE; a SQLite build without
\* UPDATE ... LIMIT raises on the statement and the call returns False
ApproveUpdate(p, dt) ==
    /\ CanCall(p)
    /\ calls' = calls + 1
    /\ LET l0 == [NoCall EXCEPT !.op = "approve", !.dt = dt, !.ledger0 = ledger,
                                !.backups0 = backups] IN
       IF ~sqlUpdateLimit
       THEN /\ ApproveFails(p, l0)
            /\ UNCHANGED ledger
       ELSE \E id \in OrNone(LatestUpdateAvailable(dt)) :
              /\ ledger' = MarkApproved(id)
              /\ pc' = [pc EXCEPT ![p] = "execute_update"]
              /\ loc' = [loc EXCEPT ![p] = [l0 EXCEPT !.marked = id,
                                                      !.wrote = ledger' # ledger]]
    /\ UNCHANGED componentVars
    /\ UNCHANGED <<config, sqlUpdateLimit, now, ticks, lastProbe, store, backups,
                   notified>>

\* _execute_update up to the search of the document link (_find_*_pdf_url): a
\* missing option, a failed page request or no matching anchor give None
FindPdfUrl(p) ==
    /\ pc[p] = "execute_update"
    /\ \E found \in BOOLEAN :
         IF found /\ HasKeys({"base_url", UrlKey(loc[p].dt), "timeout"})
         THEN /\ pc' = [pc EXCEPT ![p] = "download_file"]
              /\ UNCHANGED loc
         ELSE ApproveFails(p, loc[p])
    /\ UNCHANGED componentVars
    /\ UNCHANGED <<config, sqlUpdateLimit, now, ticks, calls, ledger, lastProbe, store,
                   backups, notified>>

\* a wait that does not grow
ConstantBackoff(attempt) == 1

\* 2 ** attempt
Backoff(attempt) == 2 ^ attempt

\* one attempt of the loop of _download_file
DownloadFile(p) ==
    /\ pc[p] = "download_file"
    /\ IF ~HasKeys({"max_retries"})
       THEN ApproveFails(p, loc[p])
       ELSE \E outcome \in {"ok", "request_error", "error"} :
              LET l1 == [loc[p] EXCEPT !.downloaded = TRUE] IN
              CASE outcome = "ok" ->
                     /\ pc' = [pc EXCEPT ![p] = "convert_import"]
                     /\ loc' = [loc EXCEPT ![p] = [l1 EXCEPT !.attempt = 0,
                                                              !.sleeps = <<>>]]
                [] outcome = "error" -> ApproveFails(p, l1)
                [] outcome = "request_error" ->
                     LET l2 == [l1 EXCEPT !.attempt = @ + 1,
                                          !.sleeps =
                                              IF loc[p].attempt < config.max_retries - 1
                                              THEN Append(@, Backoff(loc[p].attempt))
                                              ELSE @] IN
                     IF loc[p].attempt + 1 < config.max_retries
                     THEN /\ pc' = pc
                          /\ loc' = [loc EXCEPT ![p] = l2]
                     ELSE ApproveFails(p, l2)
    /\ UNCHANGED componentVars
    /\ UNCHANGED <<config, sqlUpdateLimit, now, ticks, calls, ledger, lastProbe, store,
                   backups, notified>>

\* _convert_pdf_to_csv and the import_* of TaxDataManager
ConvertAndImport(p, docs) ==
    /\ pc[p] = "convert_import"
    /\ \E outcome \in {"ok", "convert_error", "import_error"}, doc \in docs :
         IF outcome = "ok"
         THEN /\ store' = [store EXCEPT ![loc[p].dt] =
                              ImportRows(@, Year(now), Month(now), doc)]
              /\ pc' = [pc EXCEPT ![p] = "record_update_execution"]
              /\ loc' = [loc EXCEPT ![p].imported = TRUE, ![p].success = TRUE]
         ELSE /\ ApproveFails(p, loc[p])
              /\ UNCHANGED store
    /\ UNCHANGED componentVars
    /\ UNCHANGED <<config, sqlUpdateLimit, now, ticks, calls, ledger, lastProbe,
                   backups, notified>>

\* _record_update_execution, then approve_update returns True
RecordUpdateExecution(p) ==
    /\ pc[p] = "record_update_execution"
    /\ \E id \in OrNone(LatestApproved(loc[p].dt)) :
         /\ ledger' = MarkCompleted(id)
         /\ loc' = [loc EXCEPT ![p] = Returned(@, "true")]
    /\ pc' = [pc EXCEPT ![p] = "idle"]
    /\ UNCHANGED componentVars
    /\ UNCHANGED <<config, sqlUpdateLimit, now, ticks, calls, lastProbe, store, backups,
                   notified>>

----------------------------------------------------------------------------

Next ==
    \/ Tick({1})
    \/ \E p \in Procs : SmartCheck(p)
    \/ \E p \in Procs : LightweightCheckStep(p, SomeResponses, FALSE)
    \/ \E p \in Procs : RecordUpdateHistory(p)
    \/ \E p \in Procs, dt \in DataTypeSet : ApproveUpdate(p, dt)
    \/ \E p \in Procs : FindPdfUrl(p)
    \/ \E p \in Procs : DownloadFile(p)
    \/ \E p \in Procs : ConvertAndImport(p, SomeDocs)
    \/ \E p \in Procs : RecordUpdateExecution(p)

Spec == Init /\ [][Next]_vars

\* one caller checking again and again, every response and the forced recheck
\* window in reach, the responses observed
NextCheck ==
    \/ Tick({1, ForcedRecheckSeconds, ForcedRecheckSeconds + 1})
    \/ SmartCheck(1)
    \/ LightweightCheckStep(1, Responses, TRUE)
    \/ RecordUpdateHistory(1)

InitCheck == Init /\ sqlUpdateLimit

SpecCheck == InitCheck /\ [][NextCheck]_vars

----------------------------------------------------------------------------
(* TaxDataAutoUpdater run on its own: start_scheduler *)

MaxRuns == 2

\* config = None: TaxDataAutoUpdater._get_default_config()
UpdaterDefaultConfig ==
    [keys |-> UpdaterDefaultKeys, notification_enabled |-> FALSE,
     max_retries |-> DefaultMaxRetries]

\* the dict auto_updater_runner.main passes
AutoRunnerConfig ==
    [keys |-> {"check_interval_hours"}, notification_enabled |-> FALSE,
     max_retries |-> DefaultMaxRetries]

CheckIntervalHours == 24

\* what the scheduler leaves alone
smartVars == <<sqlUpdateLimit, ticks, calls, ledger, lastProbe, notified, pc, loc,
               functionVars>>

\* a calendar date; NoDate stands for None and for a page that was not received
NoDate == [year |-> 0, month |-> 0, day |-> 0]

Day(t) == 1 + ((t \div 86400) % 30)

Today(t) == [year |-> Year(t), month |-> Month(t), day |-> Day(t)]

\* a > b on datetime.date
DateAfter(a, b) ==
    \/ a.year > b.year
    \/ a.year = b.year /\ a.month > b.month
    \/ a.year = b.year /\ a.month = b.month /\ a.day > b.day

\* what _extract_last_updated_date can return for the page of a data type at
\* clock t: a date written on the page, or today when the page shows none
PageDates(t) ==
    {Today(t), [year |-> 1, month |-> 1, day |-> 1], [year |-> 1, month |-> 2, day |-> 15]}

Pages(t) == {NoDate} \cup PageDates(t)

SetMax(S) == CHOOSE x \in S : \A y \in S : y <= x

\* _get_latest_*_data: SELECT MAX(year), MAX(month), made a date of day 1
LatestData(dt) ==
    IF store[dt] = {} THEN NoDate
    ELSE [year |-> SetMax({r.year : r \in store[dt]}),
          month |-> SetMax({r.month : r \in store[dt]}), day |-> 1]

\* _check_*_data_updates, given the page the GET returned (NoDate: the request
\* failed); a missing option raises KeyError, which is caught
CheckDataUpdates(dt, page) ==
    IF ~HasKeys({"base_url", UrlKey(dt), "timeout"}) THEN FALSE
    ELSE IF page = NoDate THEN FALSE
    ELSE LatestData(dt) = NoDate \/ DateAfter(page, LatestData(dt))

InitScheduler ==
    /\ config \in {UpdaterDefaultConfig, AutoRunnerConfig}
    /\ sqlUpdateLimit = TRUE
    /\ Quiet
    /\ scheduler = [NoScheduler EXCEPT !.pc = "start_scheduler"]
    /\ text = <<>>
    /\ df = NoDf
    /\ imports = <<>>
    /\ configArg = NoConstructor

\* start_scheduler up to the first _scheduled_check: the job is registered
StartScheduler ==
    /\ scheduler.pc = "start_scheduler"
    /\ scheduler' = IF HasKeys({"check_interval_hours"})
                    THEN [scheduler EXCEPT !.pc = "scheduled_check", !.runs = 1]
                    ELSE [scheduler EXCEPT !.pc = "stopped", !.stop = "Exception",
                                           !.at = "start_scheduler"]
    /\ UNCHANGED <<config, now, store, backups, smartVars, text, df, imports, configArg>>

\* _scheduled_check: check_for_updates and, when it reports an update, the entry
\* of download_and_process_data, which returns False at once without the
\* download_dir option; scheduler.success is the local of that call and, once
\* the call is over, what it returned
ScheduledCheck ==
    /\ scheduler.pc = "scheduled_check"
    /\ \E pages \in [DataTypeSet -> Pages(now)] :
         LET has_updates == \E dt \in DataTypeSet : CheckDataUpdates(dt, pages[dt]) IN
         scheduler' = IF ~has_updates
                      THEN [scheduler EXCEPT !.pc = "run_pending"]
                      ELSE IF HasKeys({"download_dir"})
                      THEN [scheduler EXCEPT !.pc = "download_and_process", !.idx = 1,
                                             !.success = TRUE]
                      ELSE [scheduler EXCEPT !.pc = "run_pending", !.success = FALSE]
    /\ UNCHANGED <<config, now, store, backups, smartVars, text, df, imports, configArg>>

\* download_and_process_data goes to the next data type with success &= ok, or to
\* its end: the backup when success is still True
NextDataType(ok) ==
    LET success == scheduler.success /\ ok IN
    IF scheduler.idx < Len(DataTypes)
    THEN [scheduler EXCEPT !.pc = "download_and_process", !.idx = @ + 1,
                           !.success = success]
    ELSE [scheduler EXCEPT !.pc = IF success THEN "create_backup" ELSE "run_pending",
                           !.idx = 0, !.success = success]

\* the check download_and_process_data makes of the data type of its turn
CheckBeforeDownload ==
    /\ scheduler.pc = "download_and_process"
    /\ \E page \in Pages(now) :
         scheduler' = IF CheckDataUpdates(DataTypes[scheduler.idx], page)
                      THEN [scheduler EXCEPT !.pc = "acquire"]
                      ELSE NextDataType(TRUE)
    /\ UNCHANGED <<config, now, store, backups, smartVars, text, df, imports, configArg>>

\* _download_and_process_*_data: link search, download, conversion and import
DownloadAndProcess(docs) ==
    /\ scheduler.pc = "acquire"
    /\ \E ok \in BOOLEAN, doc \in docs :
         /\ store' = IF ok
                     THEN [store EXCEPT ![DataTypes[scheduler.idx]] =
                               ImportRows(@, Year(now), Month(now), doc)]
                     ELSE store
         /\ scheduler' = NextDataType(ok)
    /\ UNCHANGED <<config, now, backups, smartVars, text, df, imports, configArg>>

\* a backup whose failure makes download_and_process_data return False
CreateBackupOrFail ==
    /\ scheduler.pc = "create_backup"
    /\ \E ok \in BOOLEAN :
         /\ backups' = IF ok /\ HasKeys({"backup_dir"}) THEN backups + 1 ELSE backups
         /\ scheduler' = [scheduler EXCEPT !.pc = "run_pending",
                                           !.success = backups' # backups]
    /\ UNCHANGED <<config, now, store, smartVars, text, df, imports, configArg>>

\* _create_backup: a failure is logged and nothing else; download_and_process_data
\* then returns success
CreateBackup ==
    /\ scheduler.pc = "create_backup"
    /\ \E ok \in BOOLEAN :
         backups' = IF ok /\ HasKeys({"backup_dir"}) THEN backups + 1 ELSE backups
    /\ scheduler' = [scheduler EXCEPT !.pc = "run_pending"]
    /\ UNCHANGED <<config, now, store, smartVars, text, df, imports, configArg>>

\* the loop of start_scheduler sleeps until the job is due and runs it
RunPending ==
    /\ scheduler.pc = "run_pending"
    /\ scheduler.runs < MaxRuns
    /\ now' = now + CheckIntervalHours * 3600
    /\ scheduler' = [scheduler EXCEPT !.pc = "scheduled_check", !.runs = @ + 1]
    /\ UNCHANGED <<config, store, backups, smartVars, text, df, imports, configArg>>

\* SIGINT: KeyboardInterrupt is raised where the scheduler is; no handler below
\* start_scheduler catches it (they catch Exception), so the loop is left there
KeyboardInterrupt ==
    /\ scheduler.pc \notin {"none", "start_scheduler", "stopped"}
    /\ scheduler' = [scheduler EXCEPT !.pc = "stopped", !.stop = "KeyboardInterrupt",
                                      !.at = scheduler.pc]
    /\ UNCHANGED <<config, now, store, backups, smartVars, text, df, imports, configArg>>

NextScheduler ==
    \/ StartScheduler
    \/ ScheduledCheck
    \/ CheckBeforeDownload
    \/ DownloadAndProcess(Docs)
    \/ CreateBackup
    \/ RunPending
    \/ KeyboardInterrupt

SpecScheduler == InitScheduler /\ [][NextScheduler]_vars

----------------------------------------------------------------------------
(* TaxDataAutoUpdater run on its own: _convert_pdf_to_csv *)

MaxLines == 3

\* int(token) for the tokens int() accepts; on any other token it raises ValueError
IntValue ==
    [tok \in {"01", "02", "03", "04", "8", "12", "70", "80", "90", "280", "300", "320",
              "400", "450", "500", "2024"} |->
        CASE tok = "01" -> 1 [] tok = "02" -> 2 [] tok = "03" -> 3 [] tok = "04" -> 4
          [] tok = "8" -> 8 [] tok = "12" -> 12 [] tok = "70" -> 70 [] tok = "80" -> 80
          [] tok = "90" -> 90 [] tok = "280" -> 280 [] tok = "300" -> 300
          [] tok = "320" -> 320 [] tok = "400" -> 400 [] tok = "450" -> 450
          [] tok = "500" -> 500 [] tok = "2024" -> 2024]

IsInt(tok) == tok \in DOMAIN IntValue

\* float(token), in tenths, for the tokens float() accepts; "1,200" and words raise
IsFloat(tok) == IsInt(tok) \/ tok = "10.5"

FloatValue(tok) == IF tok = "10.5" THEN 105 ELSE 10 * IntValue[tok]

\* re.match(r'\d+', line.strip()): the first character of the line is a digit
StartsWithDigit(line) ==
    /\ line # <<>>
    /\ IsInt(line[1]) \/ line[1] \in {"10.5", "1,200"}

\* the lines a text is made of, each as line.split() gives it
DataLine1 == <<"01", "Mfg", "500", "10.5", "80", "300">>

DataLine2 == <<"02", "Retail", "450", "8", "70", "280">>

HeaderLine == <<"Code", "Name", "Price", "Dividend", "Profit", "Assets">>

BlankLine == <<>>

FooterLine == <<"2024", "edition">>

MalformedLine == <<"03", "Wholesale", "1,200", "12", "90", "320">>

ShortLine == <<"04", "Service", "400", "12", "90">>

RateLine == <<"500", "450", "10.5">>

MalformedRateLine == <<"500", "10.5", "8">>

Lines ==
    {DataLine1, DataLine2, HeaderLine, BlankLine, FooterLine, MalformedLine, ShortLine,
     RateLine, MalformedRateLine}

Texts == UNION {[1..n -> Lines] : n \in 0..MaxLines}

\* a row with the price and the dividend taken from each other's token
SwappedComparableRow(parts) ==
    [industry_code |-> parts[1], industry_name |-> parts[2],
     average_price |-> FloatValue(parts[4]),
     average_dividend |-> FloatValue(parts[3]),
     average_profit |-> FloatValue(parts[5]),
     average_net_assets |-> IF Len(parts) > 5 THEN FloatValue(parts[6]) ELSE 0]

\* the dict _parse_comparable_data appends for a line of five or more parts
ComparableRow(parts) ==
    [industry_code |-> parts[1], industry_name |-> parts[2],
     average_price |-> FloatValue(parts[3]),
     average_dividend |-> FloatValue(parts[4]),
     average_profit |-> FloatValue(parts[5]),
     average_net_assets |-> IF Len(parts) > 5 THEN FloatValue(parts[6]) ELSE 0]

\* whether building that dict raises ValueError
ComparableRowRaises(parts) ==
    \E i \in 3..(IF Len(parts) > 5 THEN 6 ELSE 5) : ~IsFloat(parts[i])

\* the dict _parse_dividend_data appends for a line of three or more parts
DividendRow(parts) ==
    [capital_range_min |-> IntValue[parts[1]], capital_range_max |-> IntValue[parts[2]],
     reduction_rate |-> FloatValue(parts[3])]

DividendRowRaises(parts) == ~IsInt(parts[1]) \/ ~IsInt(parts[2]) \/ ~IsFloat(parts[3])

MinParts(dt) == IF dt = "comparable" THEN 5 ELSE 3

RowRaises(dt, parts) ==
    IF dt = "comparable" THEN ComparableRowRaises(parts) ELSE DividendRowRaises(parts)

Row(dt, parts) == IF dt = "comparable" THEN ComparableRow(parts) ELSE DividendRow(parts)

\* _parse_comparable_data and _parse_dividend_data: the loop over the lines; the
\* ValueError of a line leaves the function
RECURSIVE ParseData(_, _)
ParseData(dt, lines) ==
    IF lines = <<>> THEN [state |-> "ok", rows |-> <<>>]
    ELSE LET parts == Head(lines)
             rest == ParseData(dt, Tail(lines)) IN
         IF StartsWithDigit(parts) /\ Len(parts) >= MinParts(dt)
         THEN IF RowRaises(dt, parts) THEN [state |-> "ValueError", rows |-> <<>>]
              ELSE IF rest.state = "ok"
                   THEN [state |-> "ok", rows |-> <<Row(dt, parts)>> \o rest.rows]
                   ELSE rest
         ELSE rest

InitParse ==
    /\ config = UpdaterDefaultConfig
    /\ sqlUpdateLimit = TRUE
    /\ Quiet
    /\ scheduler = NoScheduler
    /\ text \in Texts
    /\ df = NoDf
    /\ imports = <<>>
    /\ configArg = NoConstructor

\* _convert_pdf_to_csv of a document of data type dt whose pages give the text:
\* the DataFrame of the parser, or None when the parser raised
ConvertPdfToCsv(dt) ==
    /\ df = NoDf
    /\ LET parsed == ParseData(dt, text) IN
       df' = [data_type |-> dt, state |-> parsed.state, rows |-> parsed.rows]
    /\ UNCHANGED <<config, now, store, backups, smartVars, scheduler, text, imports,
                   configArg>>

\* the data types whose parsers are modelled
ParsedTypes == {"comparable", "dividend"}

NextParse == \E dt \in ParsedTypes : ConvertPdfToCsv(dt)

SpecParse == InitParse /\ [][NextParse]_vars

----------------------------------------------------------------------------
(* TaxDataManager run on its own: import_*_data *)

MaxImports == 3

\* the CSV files an import is given, as the rows read from them
CsvFiles == Docs \cup {{[key |-> "01", val |-> 2], [key |-> "02", val |-> 2]}}

\* the periods an import is made for
Periods == {<<1, 1>>, <<1, 2>>, <<2, 1>>}

InitImport ==
    /\ config = UpdaterDefaultConfig
    /\ sqlUpdateLimit = TRUE
    /\ Quiet
    /\ scheduler = NoScheduler
    /\ text = <<>>
    /\ df = NoDf
    /\ imports = <<>>
    /\ configArg = NoConstructor

\* import_comparable_industry_data, import_dividend_reduction_rates and
\* import_company_size_criteria: every row is written with INSERT OR REPLACE in
\* one transaction; an exception (the file cannot be read, a row is refused)
\* rolls it back and the call returns False
ImportData(dt, year, month, rows) ==
    /\ Len(imports) < MaxImports
    /\ \E ok \in BOOLEAN :
         /\ store' = IF ok THEN [store EXCEPT ![dt] = ImportRows(@, year, month, rows)]
                     ELSE store
         /\ imports' = Append(imports, [data_type |-> dt, year |-> year, month |-> month,
                                        rows |-> rows, ok |-> ok, before |-> store[dt]])
    /\ UNCHANGED <<config, now, backups, smartVars, scheduler, text, df, configArg>>

NextImport ==
    \E dt \in DataTypeSet, period \in Periods, rows \in CsvFiles :
        ImportData(dt, period[1], period[2], rows)

SpecImport == InitImport /\ [][NextImport]_vars

----------------------------------------------------------------------------
(* The constructors: self.config = config or self._get_default_config() *)

Components == {"SmartUpdateSystem", "TaxDataAutoUpdater"}

\* the options a caller's dict gives in the model
OverrideKeys ==
    {"check_interval_hours", "base_url", "timeout", "notification_enabled", "max_retries"}

\* the config arguments: None, or a dict of some of the options; an option that
\* is not in the dict has no value, written as FALSE and as DefaultMaxRetries
ConfigArgs ==
    {None} \cup
    {a \in [keys : SUBSET OverrideKeys, notification_enabled : BOOLEAN,
            max_retries : {1, DefaultMaxRetries}] :
        /\ "notification_enabled" \notin a.keys => ~a.notification_enabled
        /\ "max_retries" \notin a.keys => a.max_retries = DefaultMaxRetries}

DefaultConfig(component) ==
    IF component = "SmartUpdateSystem" THEN SmartDefaultConfig ELSE UpdaterDefaultConfig

\* config or self._get_default_config(): None and the empty dict are falsy, any
\* other dict is taken as it is
ResolveConfig(component, arg) ==
    IF arg = None \/ arg.keys = {} THEN DefaultConfig(component) ELSE arg

InitConfig ==
    /\ config = None
    /\ sqlUpdateLimit = TRUE
    /\ Quiet
    /\ scheduler = NoScheduler
    /\ text = <<>>
    /\ df = NoDf
    /\ imports = <<>>
    /\ configArg \in [component : Components, config : ConfigArgs]

\* __init__ of the component
Construct ==
    /\ config = None
    /\ config' = ResolveConfig(configArg.component, configArg.config)
    /\ UNCHANGED <<now, store, backups, smartVars, componentVars>>

NextConfig == Construct

SpecConfig == InitConfig /\ [][NextConfig]_vars

\* a caller's dict that gives the source address and the timeout only
OverrideConfig == ResolveConfig("SmartUpdateSystem",
                                [keys |-> {"base_url", "timeout"},
                                 notification_enabled |-> FALSE,
                                 max_retries |-> DefaultMaxRetries])

\* SmartUpdateSystem constructed with that dict, checking again and again
InitOverride ==
    /\ ComponentsIdle
    /\ config = OverrideConfig
    /\ sqlUpdateLimit = TRUE
    /\ Quiet

SpecOverride == InitOverride /\ [][NextCheck]_vars

----------------------------------------------------------------------------
(* judge_company_size (valuation_logic.py), applied on its own *)

\* 1億円 in the unit of the model's amounts, which is 1,000,000 yen: the
\* thresholds and the amounts used are all multiples of it
Oku == 100

\* the head counts and amounts a company is judged with: the arguments of
\* test_judge_company_size and the values next to each threshold
EmployeeCounts == {10, 34, 35, 50, 100}
Amounts == {Oku, 2 * Oku - 1, 2 * Oku, 3 * Oku - 1, 3 * Oku, 15 * Oku - 1, 15 * Oku,
            30 * Oku - 1, 30 * Oku, 50 * Oku, 100 * Oku, 200 * Oku, 500 * Oku}

\* the three sizes: the strings "大会社", "小会社" and "中会社"
Large == "large"
Small == "small"
Medium == "medium"

\* judge_company_size, and ValuationLogicV2._judge_company_size_default
judge_company_size(employee_count, total_assets, sales_amount) ==
    LET is_employee_L == employee_count >= 35
        is_asset_L == total_assets >= 15 * Oku
        is_asset_S == total_assets < 2 * Oku
        is_sales_L == sales_amount >= 30 * Oku
        is_sales_S == sales_amount < 3 * Oku
    IN  IF is_employee_L \/ (is_asset_L /\ is_sales_L) THEN Large
        ELSE IF is_asset_S /\ is_sales_S THEN Small
        ELSE Medium

Companies ==
    [employee_count : EmployeeCounts, total_assets : Amounts, sales_amount : Amounts]

InitJudge ==
    /\ ComponentsIdle
    /\ config = None
    /\ sqlUpdateLimit = TRUE
    /\ Start
    /\ company \in Companies
    /\ size = "none"
    /\ anchors = <<>>
    /\ acquisition = NoAcquisition

\* a call of judge_company_size with the company's figures
JudgeCompanySize ==
    /\ size = "none"
    /\ size' = judge_company_size(company.employee_count, company.total_assets,
                                  company.sales_amount)
    /\ UNCHANGED <<config, sqlUpdateLimit, now, ticks, calls, ledger, lastProbe, store,
                   backups, notified, pc, loc>>
    /\ UNCHANGED <<scheduler, text, df, imports, configArg, company, anchors, acquisition>>

NextJudge == JudgeCompanySize

SpecJudge == InitJudge /\ [][NextJudge]_vars

----------------------------------------------------------------------------
(* _download_and_process_* of TaxDataAutoUpdater run on its own: the search of  *)
(* the document link, the download, the conversion and the import              *)

MaxAnchors == 3

\* an <a> element without the href attribute
NoHref == [name |-> "none", suffix |-> "none"]

\* the href attributes of the anchors of a page, as a name and its ending
Hrefs ==
    {[name |-> "a", suffix |-> ".pdf"], [name |-> "b", suffix |-> ".pdf"],
     [name |-> "a", suffix |-> ".html"], [name |-> "a", suffix |-> ".PDF"]}

\* href.endswith(suffix)
EndsWith(href, suffix) == href.suffix = suffix

\* the phrase _find_*_pdf_url looks for in the text of an anchor: '類似業種',
\* '配当還元' and '会社規模'
Hint(dt) ==
    CASE dt = "comparable" -> "ruiji-gyoshu"
      [] dt = "dividend" -> "haito-kangen"
      [] dt = "company_size" -> "kaisha-kibo"

\* link.get_text(), as the set of the phrases it contains
LinkTexts == {{Hint("comparable")}, {Hint("dividend")}}

Anchors == [href : Hrefs \cup {NoHref}, text : LinkTexts]

\* the anchors of a page, in document order
AnchorLists == UNION {[1..n -> Anchors] : n \in 0..MaxAnchors}

\* urljoin(url, href) for the page of data type dt
UrlJoin(dt, href) == [page |-> UrlKey(dt), href |-> href]

\* whether the loop of _find_*_pdf_url returns at this anchor: find_all('a',
\* href=True) gives the anchors that have an href
Matches(dt, link) ==
    /\ link.href # NoHref
    /\ EndsWith(link.href, ".pdf")
    /\ Hint(dt) \in link.text

\* a search that returns the last matching anchor
RECURSIVE find_last_pdf_url(_, _)
find_last_pdf_url(dt, links) ==
    IF links = <<>> THEN NoUrl
    ELSE LET link == links[Len(links)] IN
         IF Matches(dt, link) THEN UrlJoin(dt, link.href)
         ELSE find_last_pdf_url(dt, SubSeq(links, 1, Len(links) - 1))

\* the loop of _find_*_pdf_url over the anchors of the page, in document order
RECURSIVE find_pdf_url(_, _)
find_pdf_url(dt, links) ==
    IF links = <<>> THEN NoUrl
    ELSE LET link == Head(links) IN
         IF Matches(dt, link) THEN UrlJoin(dt, link.href)
         ELSE find_pdf_url(dt, Tail(links))

MaxAcquisitions == 2

\* the rows parsed from the documents of two publications
Publications ==
    {{[key |-> "01", val |-> 1], [key |-> "02", val |-> 1]},
     {[key |-> "01", val |-> 2], [key |-> "02", val |-> 2]}}

\* an import that leaves the rows written before the exception
KeepWritten(table, txn) == txn

\* the exit of 'with sqlite3.connect(...) as conn' on an exception: the
\* transaction is rolled back, the table is as it was committed
Rollback(table, txn) == table

InitAcquire ==
    /\ ComponentsIdle
    /\ config = UpdaterDefaultConfig
    /\ sqlUpdateLimit = TRUE
    /\ Start
    /\ company = NoCompany
    /\ size = "none"
    /\ anchors \in AnchorLists
    /\ acquisition = NoAcquisition

\* what a step of the acquisition leaves alone, besides store
acquireFrame ==
    <<config, sqlUpdateLimit, now, ticks, calls, ledger, lastProbe, backups, notified,
      pc, loc, scheduler, text, df, imports, configArg, company, size, anchors>>

\* _download_and_process_* of data type dt is called
Acquire(dt) ==
    /\ acquisition.pc \in {"none", "failed", "done"}
    /\ acquisition.runs < MaxAcquisitions
    /\ acquisition' = [NoAcquisition EXCEPT !.data_type = dt, !.pc = "find",
                                            !.runs = acquisition.runs + 1,
                                            !.before = store]
    /\ UNCHANGED <<store, acquireFrame>>

\* _find_*_pdf_url: the page is requested and its anchors are searched; without
\* a url the call returns False
FindUrl ==
    /\ acquisition.pc = "find"
    /\ \E received \in BOOLEAN :
         LET url == IF received THEN find_pdf_url(acquisition.data_type, anchors)
                    ELSE NoUrl
         IN  acquisition' = [acquisition EXCEPT
                                !.received = received,
                                !.pdf_url = url,
                                !.pc = IF url = NoUrl THEN "failed" ELSE "download"]
    /\ UNCHANGED <<store, acquireFrame>>

\* _download_file
Download ==
    /\ acquisition.pc = "download"
    /\ \E ok \in BOOLEAN :
         acquisition' = [acquisition EXCEPT !.downloaded = TRUE,
                                            !.pc = IF ok THEN "convert" ELSE "failed"]
    /\ UNCHANGED <<store, acquireFrame>>

\* _convert_pdf_to_csv: the text extraction or the parser raises, or the rows are
\* written to the CSV file and the import_* of TaxDataManager is entered
Convert ==
    /\ acquisition.pc = "convert"
    /\ \/ acquisition' = [acquisition EXCEPT !.pc = "failed"]
       \/ \E rows \in Publications :
            acquisition' = [acquisition EXCEPT
                               !.converted = TRUE, !.imported = TRUE, !.pc = "import",
                               !.rest = rows, !.txn = store[acquisition.data_type]]
    /\ UNCHANGED <<store, acquireFrame>>

\* one INSERT OR REPLACE of the loop of import_*, or the exception that ends it
InsertRow ==
    /\ acquisition.pc = "import"
    /\ \E row \in acquisition.rest, raises \in BOOLEAN :
         IF raises
         THEN /\ store' = [store EXCEPT ![acquisition.data_type] =
                              Rollback(@, acquisition.txn)]
              /\ acquisition' = [acquisition EXCEPT !.pc = "failed"]
         ELSE /\ acquisition' = [acquisition EXCEPT
                                    !.txn = ImportRows(@, Year(now), Month(now), {row}),
                                    !.rest = @ \ {row}]
              /\ UNCHANGED store
    /\ UNCHANGED acquireFrame

\* conn.commit() after the last row; import_* returns True
Commit ==
    /\ acquisition.pc = "import"
    /\ acquisition.rest = {}
    /\ store' = [store EXCEPT ![acquisition.data_type] = acquisition.txn]
    /\ acquisition' = [acquisition EXCEPT !.pc = "done"]
    /\ UNCHANGED acquireFrame

NextAcquire ==
    \/ \E dt \in DataTypeSet : Acquire(dt)
    \/ FindUrl
    \/ Download
    \/ Convert
    \/ InsertRow
    \/ Commit

SpecAcquire == InitAcquire /\ [][NextAcquire]_vars

----------------------------------------------------------------------------
(* The claims *)

\* Checked(update-available): a row of a check that saw an update, not yet approved
Pending(r) == r.update_available /\ r.update_status = "pending"

HasPending(l, dt) == \E i \in 1..Len(l) : l[i].data_type = dt /\ Pending(l[i])

Approving(p) == loc[p].op = "approve" /\ pc[p] # "idle"

\* whether the first UPDATE of the approve call of p moved a pending row of its
\* data type to approved
MovedPending(p) ==
    /\ loc[p].marked # 0
    /\ loc[p].ledger0[loc[p].marked].data_type = loc[p].dt
    /\ Pending(loc[p].ledger0[loc[p].marked])

\* the step with which the approve call of p returns True
ReturnsSuccess(p) == pc[p] = "record_update_execution" /\ pc'[p] = "idle"

\* C1: the document download and the storage import of a data type are run only
\* by an approve call that itself moved a pending row of that type to approved;
\* a call that found no such row downloads nothing and imports nothing.
C1_AcquisitionOnlyAfterOwnApproval ==
    \A p \in Procs :
        (Approving(p) /\ (loc[p].downloaded \/ loc[p].imported)) => MovedPending(p)

\* C2: an approve call entered when no row of its data type is pending returns
\* failure and changes no row of the ledger.
C2_NothingToApproveLeavesLedger ==
    \A p \in Procs :
        (Approving(p) /\ ~HasPending(loc[p].ledger0, loc[p].dt))
            => (~loc[p].wrote /\ ~loc[p].success)

\* C3: two approve calls in progress at once for the same data type that selected
\* the same row never both run the download: the acquisition runs at most once
\* for the row.
C3_ConcurrentApprovalsRunOnce ==
    \A p, q \in Procs :
        (p # q /\ Approving(p) /\ Approving(q) /\ loc[p].dt = loc[q].dt
               /\ loc[p].marked # 0 /\ loc[p].marked = loc[q].marked)
            => ~(loc[p].downloaded /\ loc[q].downloaded)

\* C4: a check whose probe failed appends no row (and so reports no
\* update_available = false for it).
C4_ProbeFailureAppendsNothing ==
    [][\A p \in Procs :
          (pc[p] = "record_update_history" /\ loc'[p] # loc[p]
              /\ Len(ledger') > Len(ledger))
            => ProbeCompleted(loc[p].resp)]_vars

\* C5: a check whose probe returns the validators the previous probe of the data
\* type returned, within the forced recheck window of the previous row, yields
\* update_available = false.
C5_UnchangedValidatorsNoUpdate ==
    \A p \in Procs :
        (/\ pc[p] = "record_update_history"
         /\ loc[p].last # 0
         /\ ProbeCompleted(loc[p].resp)
         /\ loc[p].prev = loc[p].resp
         /\ loc[p].elapsed <= ForcedRecheckSeconds)
            => ~loc[p].ua

\* C6: a check of a data type that has no row in the ledger yields
\* update_available = true.
C6_ColdStartUpdateAvailable ==
    \A p \in Procs :
        (pc[p] = "record_update_history" /\ loc[p].last = 0) => loc[p].ua

\* C7: when an approve call that moved a pending row to approved returns failure,
\* that row has the status failed.
C7_FailedAcquisitionMarksFailed ==
    [][\A p \in Procs :
          (Approving(p) /\ MovedPending(p) /\ pc'[p] = "idle" /\ loc'[p].ret = "false")
            => ledger'[loc[p].marked].update_status = "failed"]_vars

\* C8: the step with which an approve call returns success changes the status
\* of exactly one row to completed, with the execution time set, and that row is
\* the one the call moved from pending to approved.
C8_SuccessCompletesOwnRecord ==
    [][\A p \in Procs :
          ReturnsSuccess(p)
            => /\ MovedPending(p)
               /\ {i \in 1..Len(ledger) :
                      /\ ledger'[i].update_status = "completed"
                      /\ ledger[i].update_status # "completed"} = {loc[p].marked}
               /\ ledger'[loc[p].marked].update_executed_at # NullTime]_vars

\* C9: when an approve call returns success a backup snapshot has been written
\* since the call was entered.
C9_SuccessHasBackup ==
    [][\A p \in Procs : ReturnsSuccess(p) => backups' > loc[p].backups0]_vars

\* C10: the status of a row changes only from pending (update available) to
\* approved, from approved to completed and from approved to failed.
C10_StatusEdges ==
    [][\A i \in 1..Len(ledger) :
          ledger'[i].update_status # ledger[i].update_status
            => \/ Pending(ledger[i]) /\ ledger'[i].update_status = "approved"
               \/ /\ ledger[i].update_status = "approved"
                  /\ ledger'[i].update_status \in {"completed", "failed"}]_vars

\* a row that is approved and not yet completed
Approved(r) == r.update_status = "approved"

\* the rows of data type dt that are in Checked(update-available) or in Approved
OpenRows(dt) ==
    {i \in Ids : ledger[i].data_type = dt /\ (Pending(ledger[i]) \/ Approved(ledger[i]))}

\* C11: in every state of the ledger each data type has at most one row that is
\* pending with an update available or approved.
C11_OneOpenRowPerType ==
    \A dt \in DataTypeSet : Cardinality(OpenRows(dt)) <= 1

\* no caller has made an approve call
NoApproveCall == \A p \in Procs : loc[p].op # "approve"

\* C12: under the default configuration, as long as no approve call was made the
\* scheduler is never in the acquisition of a data type and the dataset tables
\* are never written.
C12_TickOnlyChecks ==
    (config = UpdaterDefaultConfig /\ NoApproveCall)
        => /\ scheduler.pc # "acquire"
           /\ \A dt \in DataTypeSet : store[dt] = {}

\* C13: the scheduler is stopped by a cancellation signal only between ticks: a
\* signal never ends the loop while a check or an acquisition is in progress.
C13_StopOnlyBetweenTicks ==
    scheduler.stop = "KeyboardInterrupt" => scheduler.at = "run_pending"

\* the step is one of caller p
StepOf(p) == pc'[p] # pc[p] \/ loc'[p] # loc[p]

\* C14: a download makes at most three attempts: an attempt is made only after
\* fewer than three failures, the waits made so far are 1 s after the first
\* failure and 2 s after the second, a failed attempt that is not the third is
\* followed by the wait of 2 ^ (failures so far) and the next attempt, the
\* third failure ends the download with failure and without a wait, and a
\* success ends it: the number of failures grows with every retry and is
\* bounded, so the download terminates.
C14_BoundedRetryWithBackoff ==
    [][\A p \in Procs :
          (pc[p] = "download_file" /\ HasKeys({"max_retries"}) /\ StepOf(p))
            => LET failures == loc[p].attempt IN
               /\ failures < DefaultMaxRetries
               /\ Len(loc[p].sleeps) = failures
               /\ \A i \in 1..failures : loc[p].sleeps[i] = 2 ^ (i - 1)
               /\ pc'[p] \in {"download_file", "convert_import", "idle"}
               /\ pc'[p] = "download_file"
                    => /\ failures + 1 < DefaultMaxRetries
                       /\ loc'[p].attempt = failures + 1
                       /\ loc'[p].sleeps = Append(loc[p].sleeps, 2 ^ failures)
               /\ pc'[p] = "idle"
                    => /\ loc'[p].ret = "false"
                       /\ loc'[p].sleeps = loc[p].sleeps]_vars

\* a download is at its third attempt, having waited 1 s and 2 s
C14_Witness ==
    \E p \in Procs :
        /\ pc[p] = "download_file"
        /\ loc[p].attempt = DefaultMaxRetries - 1
        /\ loc[p].sleeps = <<1, 2>>

\* a well-formed data line of the comparable industry document: a numeric code,
\* a name and four numeric ratios
WellFormed(line) ==
    /\ Len(line) = 6
    /\ IsInt(line[1])
    /\ \A i \in 3..6 : IsFloat(line[i])

\* a noise line: blank, not starting with a numeric code, or too short to be a row
Noise(line) == line = <<>> \/ ~StartsWithDigit(line) \/ Len(line) < 5

\* the text of a comparable industry document has been parsed
ParsedComparable == df.data_type = "comparable"

\* C15: the parse of a comparable industry text made of well-formed data lines
\* and noise lines only, in any order, yields one row for each data line, in the
\* order of the text, holding the code and name tokens of the line and the values
\* of its four numeric tokens.
C15_RowsOfDataLines ==
    (ParsedComparable /\ \A i \in 1..Len(text) : WellFormed(text[i]) \/ Noise(text[i]))
        => LET dataLines == SelectSeq(text, WellFormed) IN
           /\ df.state = "ok"
           /\ Len(df.rows) = Len(dataLines)
           /\ \A k \in 1..Len(dataLines) :
                /\ df.rows[k].industry_code = dataLines[k][1]
                /\ df.rows[k].industry_name = dataLines[k][2]
                /\ df.rows[k].average_price = FloatValue(dataLines[k][3])
                /\ df.rows[k].average_dividend = FloatValue(dataLines[k][4])
                /\ df.rows[k].average_profit = FloatValue(dataLines[k][5])
                /\ df.rows[k].average_net_assets = FloatValue(dataLines[k][6])

\* a text of a header followed by two data lines has been parsed
C15_Witness ==
    /\ ParsedComparable
    /\ text = <<HeaderLine, DataLine2, DataLine1>>
    /\ Len(df.rows) = 2
    /\ df.rows[1].industry_code = "02"

\* C16: when the text holds at least one well-formed data line the parse does not
\* fail, whatever malformed numeric tokens other lines hold: the rows of the
\* well-formed lines are returned.
C16_MalformedLineSkipped ==
    (ParsedComparable /\ \E i \in 1..Len(text) : WellFormed(text[i]))
        => /\ df.state = "ok"
           /\ \A i \in 1..Len(text) :
                WellFormed(text[i])
                    => \E k \in 1..Len(df.rows) : df.rows[k].industry_code = text[i][1]

\* the rows of a table that belong to a period
RowsOfPeriod(table, year, month) == {r \in table : r.year = year /\ r.month = month}

\* C17: after a successful import of the rows R for a data type and a period, the
\* rows stored for that data type and period are exactly R (a row stored before
\* whose key is not in R is gone), and the rows of other periods are as before.
C17_ReplaceByPeriod ==
    \A i \in 1..Len(imports) :
        (i = Len(imports) /\ imports[i].ok)
            => LET c == imports[i] IN
               /\ RowsOfPeriod(store[c.data_type], c.year, c.month)
                    = {[year |-> c.year, month |-> c.month, key |-> n.key, val |-> n.val] :
                          n \in c.rows}
               /\ store[c.data_type] \ RowsOfPeriod(store[c.data_type], c.year, c.month)
                    = c.before \ RowsOfPeriod(c.before, c.year, c.month)

\* the response of the probe carries a validator that is not the one stored in
\* row last of the ledger
ValidatorDiffers(resp, last) ==
    \/ resp.last_modified # Null /\ resp.last_modified # ledger[last].last_modified
    \/ resp.etag # Null /\ resp.etag # ledger[last].etag

\* C18: when the data type has a row in the ledger and the probe returns a
\* Last-Modified or an ETag value that differs from the one stored in the latest
\* row of the data type, the check yields update_available = true.
C18_ChangedValidatorUpdate ==
    \A p \in Procs :
        (/\ pc[p] = "record_update_history"
         /\ loc[p].last # 0
         /\ ProbeCompleted(loc[p].resp)
         /\ ValidatorDiffers(loc[p].resp, loc[p].last))
            => loc[p].ua

\* the probe before returned Last-Modified of 2023 and this one returns 2024
C18_Witness ==
    \E p \in Procs :
        /\ pc[p] = "record_update_history"
        /\ loc[p].last # 0
        /\ loc[p].prev.last_modified = "Mon, 01 Jan 2023"
        /\ loc[p].resp.last_modified = "Mon, 01 Jan 2024"
        /\ loc[p].ua

\* C19: the ledger is append-only. A turn of a check whose probe completed goes
\* on to append one row of its data type, whatever it decided; a step appends at
\* most that row; no step removes a row, and no step of a check changes a row
\* that exists.
C19_AppendOnly ==
    [][/\ \A p \in Procs :
            (pc[p] = "lightweight_check" /\ StepOf(p)
                /\ ProbeCompleted(lastProbe'[loc[p].dt]))
              => pc'[p] = "record_update_history"
       /\ \A p \in Procs :
            (pc[p] = "record_update_history" /\ StepOf(p))
              => /\ Len(ledger') = Len(ledger) + 1
                 /\ ledger'[Len(ledger')].data_type = loc[p].dt
       /\ Len(ledger') >= Len(ledger)
       /\ \A i \in 1..Len(ledger) : ledger'[i] = ledger[i]]_vars

\* the options the component reads that the constructed config must define
Recognized(component) == DefaultConfig(component).keys

\* C20: a component constructed with a dict of some options has a config in
\* which every option of the dict has the value of the dict and every other
\* recognized option has its default value.
C20_OverridesOverDefaults ==
    (config # None /\ configArg.config # None)
        => LET arg == configArg.config
               default == DefaultConfig(configArg.component) IN
           /\ arg.keys \cup Recognized(configArg.component) \subseteq config.keys
           /\ config.notification_enabled =
                IF "notification_enabled" \in arg.keys THEN arg.notification_enabled
                ELSE default.notification_enabled
           /\ config.max_retries =
                IF "max_retries" \in arg.keys THEN arg.max_retries
                ELSE default.max_retries

\* C21: judge_company_size returns 大会社 for (100, 20,000,000,000,
\* 50,000,000,000), 小会社 for (10, 100,000,000, 200,000,000) and 中会社 for
\* (50, 5,000,000,000, 10,000,000,000)
C21_SizeOfTestCompanies ==
    size # "none" =>
        /\ company = [employee_count |-> 100, total_assets |-> 200 * Oku,
                      sales_amount |-> 500 * Oku] => size = Large
        /\ company = [employee_count |-> 10, total_assets |-> Oku,
                      sales_amount |-> 2 * Oku] => size = Small
        /\ company = [employee_count |-> 50, total_assets |-> 50 * Oku,
                      sales_amount |-> 100 * Oku] => size = Medium

\* C22: the row an approve call selects is the most recent pending row of its
\* data type: it is never a row that is already approved, completed or failed,
\* even when that row is the most recent one with update_available = true.
C22_ApproveSelectsLatestPending ==
    \A p \in Procs :
        (Approving(p) /\ loc[p].marked # 0) =>
            LET l0 == loc[p].ledger0
                target == l0[loc[p].marked]
            IN  /\ target.data_type = loc[p].dt
                /\ target.update_status = "pending"
                /\ \A i \in 1..Len(l0) :
                     (l0[i].data_type = loc[p].dt /\ Pending(l0[i]))
                        => l0[i].check_date <= target.check_date

\* the positions of the anchors whose href has the document extension and whose
\* text contains the hint of the data type
Candidates(dt) ==
    {i \in 1..Len(anchors) :
        /\ anchors[i].href # NoHref
        /\ anchors[i].href.suffix = ".pdf"
        /\ Hint(dt) \in anchors[i].text}

\* C23: the link search of a received page returns the first anchor, in document
\* order, whose href has the document extension and whose text contains the hint
\* of the data type; when no anchor satisfies both, the acquisition returns
\* failure without a download attempt and without a call of the import.
C23_FirstMatchingAnchor ==
    acquisition.pc \notin {"none", "find"} =>
        LET dt == acquisition.data_type
            found == Candidates(dt)
        IN  /\ (acquisition.received /\ found # {}) =>
                  \E i \in found :
                     /\ \A j \in found : i <= j
                     /\ acquisition.pdf_url = UrlJoin(dt, anchors[i].href)
            /\ found = {} =>
                  /\ acquisition.pdf_url = NoUrl
                  /\ acquisition.pc = "failed"
                  /\ ~acquisition.downloaded
                  /\ ~acquisition.imported

\* a page whose first anchor does not match and which has two matching anchors
\* with different hrefs: the search has returned a url
C23_Witness ==
    /\ acquisition.pc = "download"
    /\ 1 \notin Candidates(acquisition.data_type)
    /\ \E i, j \in Candidates(acquisition.data_type) : anchors[i].href # anchors[j].href

\* C24: an acquisition that returns failure, at whichever step, leaves the
\* dataset tables as they were when it started; the import is entered only
\* after the link search, the download and the conversion succeeded, and its
\* rows are in the tables only once it has committed them all.
C24_FailedAcquisitionLeavesStore ==
    /\ acquisition.pc \in {"find", "download", "convert", "import", "failed"}
          => store = acquisition.before
    /\ acquisition.imported =>
          /\ acquisition.pdf_url # NoUrl
          /\ acquisition.downloaded
          /\ acquisition.converted

\* an import that raised after it had written a row over the rows of an earlier
\* publication
C24_Witness ==
    /\ acquisition.pc = "failed"
    /\ acquisition.imported
    /\ store[acquisition.data_type] # {}
    /\ acquisition.txn # store[acquisition.data_type]

\* C25: a _create_backup that fails does not change the outcome of the imports
\* before it: the step leaves the dataset tables as they are and
\* download_and_process_data returns True.
C25_BackupFailureKeepsImport ==
    [][(scheduler.pc = "create_backup" /\ scheduler'.pc = "run_pending"
            /\ backups' = backups)
          => (store' = store /\ scheduler'.success)]_vars

\* rows were imported, the backup after them failed, and the call has returned
C25_Witness ==
    /\ scheduler.pc = "run_pending"
    /\ scheduler.success
    /\ backups = 0
    /\ \E dt \in DataTypeSet : store[dt] # {}

\* C26: among the rows of a data type that share the latest check timestamp, a
\* 'latest record' selection takes the one with the highest id: the row an
\* approve call selects has the highest id among the update_available rows of
\* its check_date.
C26_LatestIsHighestId ==
    \A p \in Procs :
        (Approving(p) /\ loc[p].marked # 0) =>
            LET l0 == loc[p].ledger0 IN
            \A i \in 1..Len(l0) :
                (/\ l0[i].data_type = loc[p].dt
                 /\ l0[i].update_available
                 /\ l0[i].check_date = l0[loc[p].marked].check_date)
                    => i <= loc[p].marked

\* C27: the notification of an available update is sent only after the row of
\* the check has been appended: at every moment the notifications sent for a
\* data type are no more than its rows with update_available = true.
C27_NotifyAfterRecord ==
    \A dt \in DataTypeSet :
        notified[dt] <= Cardinality({i \in 1..Len(ledger) :
                                        /\ ledger[i].data_type = dt
                                        /\ ledger[i].update_available})

\* C28: the latest stored period of a data type is the (year, month) of a row
\* that is stored, the greatest in lexicographic order, and absent when the table
\* has no row; the update check compares the date of the page with day 1 of it.
C28_LatestPeriodIsStored ==
    \A dt \in DataTypeSet :
        IF store[dt] = {} THEN LatestData(dt) = NoDate
        ELSE \E r \in store[dt] :
                /\ \A o \in store[dt] :
                      o.year < r.year \/ (o.year = r.year /\ o.month <= r.month)
                /\ LatestData(dt) = [year |-> r.year, month |-> r.month, day |-> 1]

\* C29: under every interleaving of check and approve calls on a data type, the
\* step with which an approve call returns success never marks completed a row
\* that another approve call approved and whose acquisition is still running.
C29_CompletesOnlyOwnApproval ==
    [][\A p, q \in Procs :
          (/\ p # q
           /\ ReturnsSuccess(p)
           /\ Approving(q)
           /\ loc[q].marked # 0
           /\ ledger[loc[q].marked].update_status # "completed")
            => ledger'[loc[q].marked].update_status # "completed"]_vars

\* C30: in every row of update_history the status is 'approved' or 'completed'
\* exactly when admin_approved is true, admin_approved is true only in rows
\* with update_available = true, and a 'completed' row has its execution
\* timestamp set.
C30_ApprovalFieldsAgree ==
    \A i \in 1..Len(ledger) :
        LET r == ledger[i] IN
        /\ r.update_status \in {"approved", "completed"} <=> r.admin_approved
        /\ r.admin_approved => r.update_available
        /\ r.update_status = "completed" => r.update_executed_at # NullTime

\* a row that was approved and completed beside a row that is approved and a row
\* of a check that saw no update
C30_Witness ==
    /\ \E i \in 1..Len(ledger) : ledger[i].update_status = "completed"
    /\ \E i \in 1..Len(ledger) : ledger[i].update_status = "approved"
    /\ \E i \in 1..Len(ledger) : ~ledger[i].update_available

====
